---- MODULE Spec2Model ----
(***************************************************************************)
(* Model of the gallery service in src/src/index.ts: the startup sequence  *)
(* (checkBucket, then app.listen) and the five Express handlers, each      *)
(* split at its await points.  The object store (MinIO) is the             *)
(* environment: every call either takes effect or fails.                   *)
(*                                                                         *)
(*   proc          where the process is: "checking" and "making" inside    *)
(*                 checkBucket, "listening", "exited" (process.exit(1)),   *)
(*                 "crashed" (uncaught exception)                          *)
(*   bucketExists  whether the configured bucket exists in the store       *)
(*   bucket        the objects of the bucket: key -> content, size, type   *)
(*   now           the value Date.now() returns                            *)
(*   req           the requests in flight: route, position, locals, res    *)
(*   sent          the request answered by the last handler step, as it    *)
(*                 ended (Idle when that step answered none)               *)
(***************************************************************************)
EXTENDS Integers, Sequences, FiniteSets, TLC

VARIABLES proc, bucketExists, bucket, now, req, sent

vars == <<proc, bucketExists, bucket, now, req, sent>>

\* ---------------------------------------------------------------- bounds
MaxReq == 2        \* request slots handled concurrently
MaxClock == 2      \* last value Date.now() takes
MaxLen == 1        \* longest uploaded buffer

Reqs == 1..MaxReq
ByteVals == {0}
Buffers == UNION {[1..n -> ByteVals] : n \in 0..MaxLen}
OneName == {"a"}
TwoNames == {"a", "b"}

\* MIME types are strings; they are kept as tuples of characters so that
\* startsWith is computed on the characters.
ImagePng == <<"i","m","a","g","e","/","p","n","g">>
TextPlain == <<"t","e","x","t","/","p","l","a","i","n">>
TextHtml == <<"t","e","x","t","/","h","t","m","l">>
ImagePrefix == <<"i","m","a","g","e","/">>
MimeTypes == {ImagePng, TextPlain}
NoHeader == <<>>
NoDisposition == ""

\* ------------------------------------------------------- pure functions
\* `${Date.now()}-${file.originalname}`
ObjectName(t, originalname) == ToString(t) \o "-" \o originalname

\* `attachment; filename="${objectName}"`
Attachment(objectName) == "attachment; filename=\"" \o objectName \o "\""

\* String.prototype.startsWith
StartsWith(s, p) == Len(s) >= Len(p) /\ SubSeq(s, 1, Len(p)) = p

\* variant: the type test accepts every content type
IsImageAnyType(contentType) == StartsWith(contentType, <<>>)

\* stat.metaData['content-type'].startsWith('image/')
IsImage(contentType) == StartsWith(contentType, ImagePrefix)

\* variant: only an undefined field counts as missing
MissingNameUndefinedOnly(param) == ~param.present

\* !objectName for a form field: undefined or the empty string
MissingName(param) == ~param.present \/ param.value = ""

\* !req.file
MissingFile(file) == ~file.present

\* variant: only the name is tested
ListKeepNamed(obj) == obj.name # ""

\* obj.name && obj.size
ListKeep(obj) == obj.name # "" /\ obj.size # 0

\* the 'data' listener: objectsList.push({name, size}) when kept
OnData(objectsList, obj) ==
    IF ListKeep(obj) THEN Append(objectsList, [name |-> obj.name, size |-> obj.size])
    ELSE objectsList

\* the 'data' listener run on every object of a stream, in stream order
RECURSIVE OnEach(_, _)
OnEach(objectsList, stream) ==
    IF stream = <<>> THEN objectsList
    ELSE OnEach(OnData(objectsList, Head(stream)), Tail(stream))

\* const objectsList = [] and the 'data' events of one listing
OnAllData(stream) == OnEach(<<>>, stream)

\* ---------------------------------------------------------- object store
Keys(b) == DOMAIN b

\* putObject(bucketName, objectName, file.buffer, file.size, metaData)
PutObject(b, k, buffer, contentType) ==
    [x \in Keys(b) \cup {k} |->
        IF x = k THEN [content |-> buffer, size |-> Len(buffer), contentType |-> contentType]
        ELSE b[x]]

\* variant: the removal has no effect
RemoveObjectNoEffect(b, k) == b

\* removeObject(bucketName, objectName)
RemoveObject(b, k) == [x \in Keys(b) \ {k} |-> b[x]]

\* the orders in which listObjects(bucketName, '', true) may report b
RECURSIVE Listings(_, _)
Listings(b, ks) ==
    IF ks = {} THEN {<<>>}
    ELSE UNION {{<<[name |-> k, size |-> b[k].size]>> \o rest :
                    rest \in Listings(b, ks \ {k})} : k \in ks}

ListObjects(b) == Listings(b, Keys(b))

\* ------------------------------------------------------------- requests
NoFile == [present |-> FALSE, originalname |-> "", mimetype |-> NoHeader, buffer |-> <<>>]
NoParam == [present |-> FALSE, value |-> ""]

\* what clients send: files of the types ms under the names fs, and object
\* names made of the clock values ts and the names fs, or one that no upload
\* produces
FilesNamed(fs, ms) == {NoFile} \cup
    {[present |-> TRUE, originalname |-> f, mimetype |-> m, buffer |-> c] :
        f \in fs, m \in ms, c \in Buffers}
NamesFor(ts, fs) == {ObjectName(t, f) : t \in ts, f \in fs} \cup {"absent"}
ParamsFor(names) == {NoParam} \cup {[present |-> TRUE, value |-> v] : v \in names \cup {""}}

\* a fresh Express response object
NewRes == [status |-> 200, contentType |-> NoHeader, disposition |-> NoDisposition,
           kind |-> "none", view |-> "", body |-> <<>>, objects |-> <<>>, ended |-> FALSE]

Idle == [route |-> "none", pc |-> "idle", file |-> NoFile, param |-> NoParam,
         objectName |-> "", found |-> FALSE, opRes |-> "none",
         statRes |-> "none", getRes |-> "none",
         stat |-> NoHeader, src |-> <<>>, objectsList |-> <<>>,
         listed |-> <<>>, streamErr |-> FALSE, calls |-> {}, res |-> NewRes]

\* res.status(code).render('error', ...): res.send keeps a Content-Type that
\* is already set and leaves every other header in place
HtmlType(res) == IF res.contentType = NoHeader THEN TextHtml ELSE res.contentType

RenderError(res, code) ==
    [res EXCEPT !.status = code, !.contentType = HtmlType(res),
                !.kind = "render", !.view = "error", !.ended = TRUE]

\* res.render('index', {objects, bucketName})
RenderIndex(res, objects) ==
    [res EXCEPT !.contentType = HtmlType(res), !.kind = "render", !.view = "index",
                !.objects = objects, !.ended = TRUE]

\* res.redirect('/')
Redirect(res) ==
    [res EXCEPT !.status = 302, !.kind = "redirect", !.ended = TRUE]

\* res.status(code).send(text)
SendText(res, code, text) ==
    [res EXCEPT !.status = code, !.contentType = HtmlType(res),
                !.kind = "send", !.view = text, !.ended = TRUE]

\* ------------------------------------------------------------------ Init
Init ==
    /\ proc = "checking"
    /\ bucketExists \in BOOLEAN
    /\ bucket = <<>>
    /\ now = 1
    /\ req = [r \in Reqs |-> Idle]
    /\ sent = Idle

\* --------------------------------------------------------------- startup
\* variant: the catch block logs and returns, so listen is reached
StartupOnErrorGoOn == "listening"

\* the catch block of checkBucket: process.exit(1)
StartupOnError == "exited"

\* await minioClient.bucketExists(bucketName)
BucketExistsDone ==
    /\ proc = "checking"
    /\ \/ proc' = (IF bucketExists THEN "listening" ELSE "making")
       \/ proc' = StartupOnError
    /\ UNCHANGED <<bucketExists, bucket, now, req, sent>>

\* await minioClient.makeBucket(bucketName), then app.listen
MakeBucketDone ==
    /\ proc = "making"
    /\ \/ proc' = "listening" /\ bucketExists' = TRUE
       \/ proc' = StartupOnError /\ UNCHANGED bucketExists
    /\ UNCHANGED <<bucket, now, req, sent>>

\* the clock behind Date.now()
Tick ==
    /\ now < MaxClock
    /\ now' = now + 1
    /\ UNCHANGED <<proc, bucketExists, bucket, req, sent>>

\* a new request takes the first slot that is not in use
Free(r) ==
    /\ proc = "listening"
    /\ req[r].pc = "idle"
    /\ \A q \in Reqs : q < r => req[q].pc # "idle"
Running(r, pc) == proc = "listening" /\ req[r].pc = pc

\* the handler of slot r goes on without responding
Continue(r, rec) == req' = [req EXCEPT ![r] = rec] /\ sent' = Idle

\* the handler of slot r writes its response: the request is over, and the
\* request as it ended is what this step sent
Respond(r, rec) ==
    /\ req' = [req EXCEPT ![r] = Idle]
    /\ sent' = [rec EXCEPT !.pc = "done", !.file = [@ EXCEPT !.mimetype = NoHeader, !.buffer = <<>>]]

\* ------------------------------------------------------ POST /upload
\* if (!req.file) return res.status(400).render('error', ...)
UploadNoFile(r, files) ==
    /\ Free(r)
    /\ \E file \in files :
        /\ MissingFile(file)
        /\ Respond(r, [Idle EXCEPT !.route = "upload", !.file = file,
                                   !.res = RenderError(NewRes, 400)])
    /\ UNCHANGED <<proc, bucketExists, bucket, now>>

\* objectName = `${Date.now()}-${file.originalname}`; putObject is issued
UploadStart(r, files) ==
    /\ Free(r)
    /\ \E file \in files :
        /\ ~MissingFile(file)
        /\ Continue(r,
              [Idle EXCEPT !.route = "upload", !.pc = "put", !.file = file,
                           !.objectName = ObjectName(now, file.originalname),
                           !.calls = {"putObject"}])
    /\ UNCHANGED <<proc, bucketExists, bucket, now>>

\* await putObject resolves: res.redirect('/')
UploadPut(r) ==
    /\ Running(r, "put")
    /\ bucket' = PutObject(bucket, req[r].objectName, req[r].file.buffer, req[r].file.mimetype)
    /\ Respond(r, [req[r] EXCEPT !.found = req[r].objectName \in Keys(bucket),
                                 !.opRes = "ok", !.res = Redirect(@)])
    /\ UNCHANGED <<proc, bucketExists, now>>

\* await putObject rejects: 500 error view
UploadFail(r) ==
    /\ Running(r, "put")
    /\ Respond(r, [req[r] EXCEPT !.opRes = "StoreError", !.res = RenderError(@, 500)])
    /\ UNCHANGED <<proc, bucketExists, bucket, now>>

\* ------------------------------------------------------ POST /delete
\* if (!objectName) return res.status(400).render('error', ...)
DeleteNoName(r, params) ==
    /\ Free(r)
    /\ \E param \in params :
        /\ MissingName(param)
        /\ Respond(r, [Idle EXCEPT !.route = "delete", !.param = param,
                                   !.res = RenderError(NewRes, 400)])
    /\ UNCHANGED <<proc, bucketExists, bucket, now>>

\* removeObject is issued
DeleteStart(r, params) ==
    /\ Free(r)
    /\ \E param \in params :
        /\ ~MissingName(param)
        /\ Continue(r,
              [Idle EXCEPT !.route = "delete", !.pc = "remove", !.param = param,
                           !.objectName = param.value, !.calls = {"removeObject"}])
    /\ UNCHANGED <<proc, bucketExists, bucket, now>>

\* await removeObject resolves (also for a key that is absent): redirect
DeleteRemove(r) ==
    /\ Running(r, "remove")
    /\ bucket' = RemoveObject(bucket, req[r].objectName)
    /\ Respond(r, [req[r] EXCEPT !.found = req[r].objectName \in Keys(bucket),
                                 !.opRes = "ok", !.res = Redirect(@)])
    /\ UNCHANGED <<proc, bucketExists, now>>

\* await removeObject rejects: 500 error view
DeleteFail(r) ==
    /\ Running(r, "remove")
    /\ Respond(r, [req[r] EXCEPT !.opRes = "StoreError", !.res = RenderError(@, 500)])
    /\ UNCHANGED <<proc, bucketExists, bucket, now>>

\* ------------------------------------------ GET /download/:objectName
\* statObject is issued
DownloadStart(r, names) ==
    /\ Free(r)
    /\ \E k \in names :
        Continue(r,
              [Idle EXCEPT !.route = "download", !.pc = "stat", !.objectName = k,
                           !.calls = {"statObject"}])
    /\ UNCHANGED <<proc, bucketExists, bucket, now>>

\* stat resolves: both headers are set, getObject is issued
DownloadStat(r) ==
    /\ Running(r, "stat") /\ req[r].route = "download"
    /\ req[r].objectName \in Keys(bucket)
    /\ LET ct == bucket[req[r].objectName].contentType IN
       Continue(r,
              [req[r] EXCEPT !.pc = "get", !.statRes = "ok", !.stat = ct,
                        !.res = [@ EXCEPT !.contentType = ct,
                                          !.disposition = Attachment(req[r].objectName)],
                        !.calls = @ \cup {"getObject"}])
    /\ UNCHANGED <<proc, bucketExists, bucket, now>>

\* stat rejects (no such key, or a store error): 500 error view
DownloadStatFail(r) ==
    /\ Running(r, "stat") /\ req[r].route = "download"
    /\ \E e \in {"NoSuchKey", "StoreError"} :
        /\ e = "NoSuchKey" => req[r].objectName \notin Keys(bucket)
        /\ Respond(r, [req[r] EXCEPT !.statRes = e, !.res = RenderError(@, 500)])
    /\ UNCHANGED <<proc, bucketExists, bucket, now>>

\* getObject resolves: fileStream.pipe(res)
DownloadGet(r) ==
    /\ Running(r, "get") /\ req[r].route = "download"
    /\ req[r].objectName \in Keys(bucket)
    /\ Continue(r,
              [req[r] EXCEPT !.pc = "pipe", !.getRes = "ok",
                        !.src = bucket[req[r].objectName].content,
                        !.res = [@ EXCEPT !.kind = "stream"]])
    /\ UNCHANGED <<proc, bucketExists, bucket, now>>

\* getObject rejects: the catch renders the error view on the same res
DownloadGetFail(r) ==
    /\ Running(r, "get") /\ req[r].route = "download"
    /\ \E e \in {"NoSuchKey", "StoreError"} :
        /\ e = "NoSuchKey" => req[r].objectName \notin Keys(bucket)
        /\ Respond(r, [req[r] EXCEPT !.getRes = e, !.res = RenderError(@, 500)])
    /\ UNCHANGED <<proc, bucketExists, bucket, now>>

\* ------------------------------------------- GET /preview/:objectName
PreviewStart(r, names) ==
    /\ Free(r)
    /\ \E k \in names :
        Continue(r,
              [Idle EXCEPT !.route = "preview", !.pc = "stat", !.objectName = k,
                           !.calls = {"statObject"}])
    /\ UNCHANGED <<proc, bucketExists, bucket, now>>

\* stat resolves with an image type: getObject is issued
PreviewStat(r) ==
    /\ Running(r, "stat") /\ req[r].route = "preview"
    /\ req[r].objectName \in Keys(bucket)
    /\ LET ct == bucket[req[r].objectName].contentType IN
       /\ IsImage(ct)
       /\ Continue(r,
              [req[r] EXCEPT !.pc = "get", !.statRes = "ok", !.stat = ct,
                        !.calls = @ \cup {"getObject"}])
    /\ UNCHANGED <<proc, bucketExists, bucket, now>>

\* stat resolves with another type: 400 'File is not an image.'
PreviewNotImage(r) ==
    /\ Running(r, "stat") /\ req[r].route = "preview"
    /\ req[r].objectName \in Keys(bucket)
    /\ LET ct == bucket[req[r].objectName].contentType IN
       /\ ~IsImage(ct)
       /\ Respond(r, [req[r] EXCEPT !.statRes = "ok", !.stat = ct,
                                    !.res = SendText(@, 400, "File is not an image.")])
    /\ UNCHANGED <<proc, bucketExists, bucket, now>>

\* stat rejects: 404 'Image not found.'
PreviewStatFail(r) ==
    /\ Running(r, "stat") /\ req[r].route = "preview"
    /\ \E e \in {"NoSuchKey", "StoreError"} :
        /\ e = "NoSuchKey" => req[r].objectName \notin Keys(bucket)
        /\ Respond(r, [req[r] EXCEPT !.statRes = e,
                                     !.res = SendText(@, 404, "Image not found.")])
    /\ UNCHANGED <<proc, bucketExists, bucket, now>>

\* getObject resolves: Content-Type is set, fileStream.pipe(res)
PreviewGet(r) ==
    /\ Running(r, "get") /\ req[r].route = "preview"
    /\ req[r].objectName \in Keys(bucket)
    /\ Continue(r,
              [req[r] EXCEPT !.pc = "pipe", !.getRes = "ok",
                        !.src = bucket[req[r].objectName].content,
                        !.res = [@ EXCEPT !.contentType = req[r].stat, !.kind = "stream"]])
    /\ UNCHANGED <<proc, bucketExists, bucket, now>>

\* getObject rejects: the same catch, 404 'Image not found.'
PreviewGetFail(r) ==
    /\ Running(r, "get") /\ req[r].route = "preview"
    /\ \E e \in {"NoSuchKey", "StoreError"} :
        /\ e = "NoSuchKey" => req[r].objectName \notin Keys(bucket)
        /\ Respond(r, [req[r] EXCEPT !.getRes = e,
                                     !.res = SendText(@, 404, "Image not found.")])
    /\ UNCHANGED <<proc, bucketExists, bucket, now>>

\* ----------------------------------------------- fileStream.pipe(res)
\* the object stream ends: every byte was written and res is ended
PipeEnd(r) ==
    /\ Running(r, "pipe")
    /\ Respond(r, [req[r] EXCEPT !.res = [@ EXCEPT !.body = req[r].src, !.ended = TRUE]])
    /\ UNCHANGED <<proc, bucketExists, bucket, now>>

\* the object stream emits 'error' after n bytes.  Nothing listens for it:
\* pipe() does not end res, and an 'error' event without a listener is
\* thrown as an uncaught exception, which ends the process.
PipeError(r) ==
    /\ Running(r, "pipe")
    /\ \E n \in 0..Len(req[r].src) :
        Continue(r,
              [req[r] EXCEPT !.pc = "hung", !.streamErr = TRUE,
                        !.res = [@ EXCEPT !.body = SubSeq(req[r].src, 1, n)]])
    /\ proc' = "crashed"
    /\ UNCHANGED <<bucketExists, bucket, now>>

\* ------------------------------------------------------------- GET /
\* listObjects returns the stream and the three listeners are attached.
\* Its arguments are the constants that bucketExists accepted at startup, so
\* it does not throw here and the catch of lines 67-69 is never entered.
ListStart(r) ==
    /\ Free(r)
    /\ Continue(r,
              [Idle EXCEPT !.route = "list", !.pc = "listing", !.calls = {"listObjects"}])
    /\ UNCHANGED <<proc, bucketExists, bucket, now>>

\* the store answers the listing: a 'data' event for every object reported,
\* then 'end', where the index view is rendered
ListEnd(r) ==
    /\ Running(r, "listing")
    /\ \E s \in ListObjects(bucket) :
        Respond(r, [req[r] EXCEPT !.listed = s, !.objectsList = OnAllData(s),
                                  !.res = RenderIndex(@, OnAllData(s))])
    /\ UNCHANGED <<proc, bucketExists, bucket, now>>

\* stream.on('error', (err) => { throw err }): the listener runs after the
\* handler's try block has returned, so the throw is an uncaught exception
\* and the process ends
ListError(r) ==
    /\ proc = "listening"
    /\ req[r].pc = "listing"
    /\ Continue(r, [req[r] EXCEPT !.pc = "hung", !.streamErr = TRUE])
    /\ proc' = "crashed"
    /\ UNCHANGED <<bucketExists, bucket, now>>

Startup == BucketExistsDone \/ MakeBucketDone

Upload(r, files) ==
    UploadNoFile(r, files) \/ UploadStart(r, files) \/ UploadPut(r) \/ UploadFail(r)

Delete(r, params) ==
    DeleteNoName(r, params) \/ DeleteStart(r, params) \/ DeleteRemove(r) \/ DeleteFail(r)

Download(r, names) ==
    \/ DownloadStart(r, names) \/ DownloadStat(r) \/ DownloadStatFail(r)
    \/ DownloadGet(r) \/ DownloadGetFail(r)

Preview(r, names) ==
    \/ PreviewStart(r, names) \/ PreviewStat(r) \/ PreviewNotImage(r) \/ PreviewStatFail(r)
    \/ PreviewGet(r) \/ PreviewGetFail(r)

Pipe(r) == PipeEnd(r) \/ PipeError(r)

List(r) == ListStart(r) \/ ListEnd(r) \/ ListError(r)

\* the whole service, with clients that use one filename while the clock
\* advances
Files == FilesNamed(OneName, MimeTypes)
NameInputs == NamesFor(1..MaxClock, OneName)
Params == ParamsFor(NameInputs)

Next ==
    \/ Startup
    \/ Tick
    \/ \E r \in Reqs :
        \/ Upload(r, Files) \/ Delete(r, Params)
        \/ Download(r, NameInputs) \/ Preview(r, NameInputs) \/ Pipe(r)
        \/ List(r)

Spec == Init /\ [][Next]_vars

\* clients that upload only, while the clock advances
NextUpload ==
    \/ Startup
    \/ Tick
    \/ \E r \in Reqs : Upload(r, Files)

SpecUpload == Init /\ [][NextUpload]_vars

\* clients that upload text files under two filenames, delete and list, all
\* within one millisecond
ListFiles == FilesNamed(TwoNames, {TextPlain})
ListParams == ParamsFor(NamesFor({1}, TwoNames))

NextList ==
    \/ Startup
    \/ \E r \in Reqs : Upload(r, ListFiles) \/ Delete(r, ListParams) \/ List(r)

SpecList == Init /\ [][NextList]_vars

\* clients that upload one filename, delete and preview, all within one
\* millisecond
PreviewNames == NamesFor({1}, OneName)
PreviewParams == ParamsFor(PreviewNames)

NextPreview ==
    \/ Startup
    \/ \E r \in Reqs :
        Upload(r, Files) \/ Delete(r, PreviewParams) \/ Preview(r, PreviewNames) \/ Pipe(r)

SpecPreview == Init /\ [][NextPreview]_vars

\* ================================================================ claims
Answered == sent.pc = "done"
Names(objects) == {objects[i].name : i \in 1..Len(objects)}
Entries(objects) == {objects[i] : i \in 1..Len(objects)}
HasImagePrefix(ct) == Len(ct) >= 6 /\ \A i \in 1..6 : ct[i] = ImagePrefix[i]
IsPrefix(p, s) == Len(p) <= Len(s) /\ \A i \in 1..Len(p) : p[i] = s[i]
Shown(obj) == obj.name # "" /\ obj.size > 0
\* slot r wrote its response in this step
Answers(r) == req[r].pc # "idle" /\ req'[r].pc = "idle"

\* C1: every successful upload of content C adds exactly one entry to the
\* listing, of size len(C), and the object stored under that entry's key has
\* the bytes C and the content type declared at upload.
C1_UploadRoundTrip ==
    [][\A r \in Reqs :
        (req[r].pc = "put" /\ Answers(r) /\ sent'.res.status = 302) =>
            LET k == req[r].objectName
                file == req[r].file
            IN  /\ \A before \in ListObjects(bucket), after \in ListObjects(bucket') :
                     Entries(OnAllData(after)) \ Entries(OnAllData(before))
                        = {[name |-> k, size |-> Len(file.buffer)]}
                /\ k \in Keys(bucket')
                /\ bucket'[k].content = file.buffer
                /\ bucket'[k].contentType = file.mimetype]_vars

\* C2: two uploads of the same filename never hold the same key, and a
\* successful upload creates exactly one new object without overwriting one.
C2_DistinctKeys ==
    [][/\ \A r, q \in Reqs :
            (r # q /\ req'[r].pc = "put" /\ req'[q].pc = "put"
                   /\ req'[r].file.originalname = req'[q].file.originalname)
                => req'[r].objectName # req'[q].objectName
       /\ \A r \in Reqs :
            (req[r].pc = "put" /\ Answers(r) /\ sent'.res.status = 302) =>
                /\ req[r].objectName \notin Keys(bucket)
                /\ Keys(bucket') = Keys(bucket) \cup {req[r].objectName}
                /\ \A k \in Keys(bucket) : bucket'[k] = bucket[k]]_vars

\* C3: once the listing stream of a GET / has emitted 'error', that request
\* is answered with status 500 and the error view.
C3_ListErrorGives500 ==
    (\E r \in Reqs : req[r].route = "list" /\ req[r].streamErr) =>
        /\ Answered /\ sent.route = "list"
        /\ sent.res.status = 500 /\ sent.res.view = "error"

\* C4: a delete that succeeds leaves its key out of the bucket and out of
\* every listing rendered from it; a key enters the bucket only by an upload
\* of that key; a successful delete of an absent key redirects and leaves
\* the bucket as it was; a delete is answered with an error only when the
\* store call itself failed.
C4_DeleteRemoves ==
    [][/\ \A r \in Reqs :
            (req[r].pc = "remove" /\ Answers(r)) =>
                LET k == req[r].objectName IN
                /\ sent'.res.status \in {302, 500}
                /\ sent'.res.status = 500 <=> sent'.opRes = "StoreError"
                /\ sent'.res.status = 302 =>
                    /\ sent'.res.kind = "redirect" /\ sent'.res.view # "error"
                    /\ k \notin Keys(bucket')
                    /\ \A s \in ListObjects(bucket') : k \notin Names(OnAllData(s))
                    /\ \A x \in Keys(bucket) \ {k} : x \in Keys(bucket') /\ bucket'[x] = bucket[x]
                    /\ k \notin Keys(bucket) => bucket' = bucket
       /\ \A k \in Keys(bucket') \ Keys(bucket) :
            sent'.route = "upload" /\ sent'.objectName = k /\ sent'.res.status = 302
       /\ (sent'.route = "list" /\ sent'.res.view = "index") =>
            Names(sent'.res.objects) \subseteq Keys(bucket')]_vars

C4_Witness ==
    /\ Answered /\ sent.route = "delete" /\ sent.res.status = 302 /\ sent.found
    /\ Keys(bucket) # {}

\* C5: an upload without a file part and a delete without a non-empty
\* objectName are answered 400, issue no store call and leave the bucket
\* unchanged.
C5_RejectedLeavesStore ==
    [][/\ (sent'.route = "upload" /\ ~sent'.file.present) =>
            sent'.res.status = 400 /\ sent'.calls = {}
       /\ (sent'.route = "delete" /\ (~sent'.param.present \/ sent'.param.value = "")) =>
            sent'.res.status = 400 /\ sent'.calls = {}
       /\ (sent'.route \in {"upload", "delete"} /\ sent'.res.status = 400) =>
            /\ bucket' = bucket
            /\ sent'.res.view = "error"
            /\ \A r \in Reqs : req'[r] = req[r]]_vars

C5_Witness ==
    /\ Answered /\ sent.route = "delete" /\ sent.param.present /\ sent.param.value = ""
    /\ sent.res.status = 400
    /\ Keys(bucket) # {}

\* C6 as stated: the answer of a preview is decided by the stat result alone
\* (failed: 404; not an image: 400; an image: 200 with that type, no
\* Content-Disposition, and the object's bytes).
C6_StatAloneDecides ==
    (Answered /\ sent.route = "preview") =>
        /\ sent.statRes # "ok" =>
            sent.res.status = 404 /\ sent.res.view = "Image not found."
        /\ (sent.statRes = "ok" /\ ~HasImagePrefix(sent.stat)) =>
            sent.res.status = 400 /\ sent.res.view = "File is not an image."
        /\ (sent.statRes = "ok" /\ HasImagePrefix(sent.stat)) =>
            /\ sent.res.status = 200
            /\ sent.res.contentType = sent.stat
            /\ sent.res.disposition = NoDisposition
            /\ sent.res.body = sent.src

\* C6 as amended: 404 when the stat or the getObject call fails; 400 without
\* any getObject when the stat succeeds with a type that is not image/...;
\* 200 with the stat's content type, no Content-Disposition and the bytes
\* that getObject read, when both calls succeed.
C6_PreviewAnswer ==
    /\ [](/\ (Answered /\ sent.route = "preview") =>
              /\ (sent.statRes # "ok" \/ sent.getRes \notin {"none", "ok"}) =>
                    /\ sent.res.status = 404 /\ sent.res.view = "Image not found."
                    /\ sent.res.disposition = NoDisposition
              /\ (sent.statRes = "ok" /\ ~HasImagePrefix(sent.stat)) =>
                    /\ sent.res.status = 400 /\ sent.res.view = "File is not an image."
                    /\ sent.getRes = "none" /\ "getObject" \notin sent.calls
              /\ (sent.statRes = "ok" /\ HasImagePrefix(sent.stat) /\ sent.getRes = "ok") =>
                    /\ sent.res.status = 200 /\ sent.res.kind = "stream"
                    /\ sent.res.contentType = sent.stat
                    /\ sent.res.disposition = NoDisposition
                    /\ sent.res.body = sent.src /\ sent.res.ended
          /\ \A r \in Reqs :
              (req[r].route = "preview" /\ req[r].pc \in {"pipe", "hung"}) =>
                    /\ req[r].res.status = 200 /\ req[r].res.contentType = req[r].stat
                    /\ HasImagePrefix(req[r].stat)
                    /\ req[r].res.disposition = NoDisposition
                    /\ IsPrefix(req[r].res.body, req[r].src))
    /\ [][\A r \in Reqs :
            /\ (req[r].route = "preview" /\ req[r].pc = "stat" /\ req'[r].pc = "get") =>
                    req[r].objectName \in Keys(bucket)
                        /\ req'[r].stat = bucket[req[r].objectName].contentType
            /\ (req[r].route = "preview" /\ req[r].pc = "get" /\ req'[r].pc = "pipe") =>
                    req[r].objectName \in Keys(bucket)
                        /\ req'[r].src = bucket[req[r].objectName].content]_vars

C6_Witness ==
    /\ Answered /\ sent.route = "preview"
    /\ sent.statRes = "ok" /\ HasImagePrefix(sent.stat) /\ sent.getRes = "NoSuchKey"
    /\ sent.res.status = 404

\* C7: the index view shows, in stream order, the (name, size) pairs of
\* exactly the reported objects with a non-empty name and a non-zero size;
\* the stream reports every object of the bucket once, with its length.
C7_ListingFilter ==
    (Answered /\ sent.route = "list") =>
        /\ sent.res.view = "index" /\ sent.res.status = 200
        /\ sent.res.objects = SelectSeq(sent.listed, Shown)
        /\ \A i \in 1..Len(sent.res.objects) : sent.res.objects[i].size # 0
        /\ Len(sent.listed) = Cardinality(Keys(bucket))
        /\ Entries(sent.listed) = {[name |-> k, size |-> Len(bucket[k].content)] : k \in Keys(bucket)}
        /\ Entries(sent.res.objects) =
              {[name |-> k, size |-> Len(bucket[k].content)] :
                    k \in {x \in Keys(bucket) : bucket[x].content # <<>>}}

C7_Witness ==
    /\ Answered /\ sent.route = "list"
    /\ \E i \in 1..Len(sent.listed) : sent.listed[i].size = 0
    /\ sent.res.objects # <<>>

\* C8: a download or preview whose object was deleted between its stat and
\* its getObject is answered with a failure that carries nothing of the
\* success path: no Content-Disposition and not the stat's content type.
C8_NoPartialFailure ==
    (/\ Answered /\ sent.route \in {"download", "preview"}
     /\ sent.statRes = "ok" /\ sent.getRes = "NoSuchKey") =>
        /\ sent.res.status \in {500, 404}
        /\ sent.res.disposition = NoDisposition
        /\ sent.res.contentType = TextHtml

\* C9: requests are handled only once the bucket check (and creation) has
\* succeeded, so the bucket exists whenever a request is handled or has been
\* answered; after a failed startup the process has exited and serves none.
C9_StartupOrder ==
    /\ proc = "listening" => bucketExists
    /\ (Answered \/ \E r \in Reqs : req[r].pc # "idle") =>
            bucketExists /\ proc \in {"listening", "crashed"}
    /\ proc \in {"checking", "making", "exited"} =>
            ~Answered /\ \A r \in Reqs : req[r].pc = "idle"
    /\ proc = "making" => ~bucketExists

C9_Witness ==
    /\ proc = "listening" /\ bucketExists
    /\ \E r \in Reqs : req[r].pc # "idle"
    /\ Answered

\* C10: a request that was accepted and is not yet answered is one whose
\* handler can still go on: the process is alive and the request not stuck.
C10_EveryRequestAnswered ==
    \A r \in Reqs : req[r].pc # "idle" => (proc = "listening" /\ req[r].pc # "hung")
====
